---- MODULE Spec2Model ----
(***************************************************************************)
(* Model of the per-key payload generator state machine GeneratorFSM of    *)
(* v2/pkg/requests/generator.go.                                           *)
(*                                                                         *)
(* Goroutines call the exported methods of one shared *GeneratorFSM.  The  *)
(* coordinator's sync.RWMutex is modelled by writer/readers, each channel  *)
(* returned by the generator function by an entry of chans.                *)
(*                                                                         *)
(* A method that takes the coordinator lock once and does not wait while   *)
(* holding it is one atomic step, taken when the lock can be acquired.     *)
(* ReadOne is split where it waits (the select) and where it writes        *)
(* without the Generator's lock (the store); Reset is split at its call of *)
(* Has.  A section under a Generator's own Lock() is part of one step:     *)
(* every access made outside that lock touches a single field, so it sees  *)
(* the section either not started or finished.                             *)
(***************************************************************************)
EXTENDS Integers, Sequences, FiniteSets, TLC

\* ---------------------------------------------------------------- bounds
MaxPaths == 2
MaxRaws == 2
MaxPayloads == 1
MaxBindings == 2

Procs == {"g1", "g2"}
Keys == {"k1", "k2"}
NoProc == "none"

\* The keys each goroutine passes: two goroutines sharing one key, two
\* goroutines with a key each, or one goroutine using two keys.
Scenarios == {[g1 |-> {"k1"}, g2 |-> {"k1"}],
              [g1 |-> {"k1"}, g2 |-> {"k2"}],
              [g1 |-> {"k1", "k2"}, g2 |-> {}]}

\* Channels a Generator can have alive at once: the one in g.gchan and the
\* ones ReadOne calls took from it earlier and still use.
StreamIds == 1 .. Cardinality(Procs)
NilChan == 0

VARIABLES
    keysOf,       \* goroutine -> the keys it passes to the methods
    Paths,        \* gfsm.Paths
    Raws,         \* gfsm.Raws
    payloads,     \* len(gfsm.payloads)
    basePayloads, \* len(gfsm.basePayloads)
    producer,     \* what a channel returned by gfsm.generator delivers
    Generators,   \* gfsm.Generators: key -> Generator or NoGen
    writer,       \* goroutine holding gfsm.Lock(), or NoProc
    readers,      \* goroutines holding gfsm.RLock()
    chans,        \* key -> channel id -> bindings received from it so far
    pc            \* goroutine -> where it is inside a method

vars == <<keysOf, Paths, Raws, payloads, basePayloads, producer,
          Generators, writer, readers, chans, pc>>

config == <<keysOf, Paths, Raws, payloads, basePayloads, producer>>

\* ------------------------------------------------------------ data model
NoGen == [present |-> FALSE]
\* Binding i is the i-th one a channel delivers; a nil map is 0.
NilValue == 0

\* &Generator{state: Init}
NewGenerator ==
    [present |-> TRUE, positionPath |-> 0, positionRaw |-> 0,
     gchan |-> NilChan, currentGeneratorValue |-> NilValue, state |-> "Init"]

\* A channel nobody refers to, and one fresh from the generator function.
NoChan == 0
FreshChan == 0

\* No payloads, so no generator function.
NoProducer == [yields |-> 0, closes |-> TRUE]

Idle == [op |-> "idle", key |-> "", stage |-> "", ch |-> NilChan, val |-> 0]
At(op, k, stage, ch, val) ==
    [op |-> op, key |-> k, stage |-> stage, ch |-> ch, val |-> val]

PathLit(i) == "path" \o ToString(i)
RawLit(i) == "raw" \o ToString(i)

\* generators.LoadPayloads: one value list per named payload spec.
LoadPayloads(n) == n

\* ok of `g, ok := gfsm.Generators[key]`
Registered(k) == Generators[k].present

\* ------------------------------------------------------------------ Init
\* NewGeneratorFSM(typ, payloads, paths, raws)
Init ==
    /\ keysOf \in Scenarios
    /\ Paths \in {[i \in 1 .. n |-> PathLit(i)] : n \in 0 .. MaxPaths}
    /\ Raws \in {[i \in 1 .. n |-> RawLit(i)] : n \in 0 .. MaxRaws}
    /\ payloads \in 0 .. MaxPayloads
    /\ basePayloads = (IF payloads > 0 THEN LoadPayloads(payloads) ELSE 0)
    /\ producer \in (IF payloads > 0
                     THEN [yields : 0 .. MaxBindings, closes : BOOLEAN]
                     ELSE {NoProducer})
    /\ Generators = [k \in Keys |-> NoGen]
    /\ writer = NoProc
    /\ readers = {}
    /\ chans = [k \in Keys |-> [s \in StreamIds |-> NoChan]]
    /\ pc = [p \in Procs |-> Idle]

\* Goroutine p, inside no method, calls one with key k.
Calls(p, k) == k \in keysOf[p] /\ pc[p] = Idle

\* ----------------------------------------------------------------- locks
\* An exclusive lock that does not wait for the readers
CanLockDespiteReaders(p) == writer = NoProc

\* gfsm.Lock() returns only when no goroutine holds the lock in either mode.
CanLock(p) == writer = NoProc /\ readers = {}

\* gfsm.RLock() returns only when no goroutine holds the exclusive lock; the
\* lock is not reentrant, the caller itself counts.
CanRLock(p) == writer = NoProc

\* --------------------------------------------------------------- queries
\* What each read-only method returns in the current state.
Has(k) == Registered(k)

Value(k) ==
    IF ~Registered(k) THEN NilValue ELSE Generators[k].currentGeneratorValue

hasPayloads == basePayloads > 0

Total == Len(Paths) + Len(Raws)

\* Next with > for >=
NextPastEnd(k) ==
    IF ~Registered(k) THEN FALSE
    ELSE IF hasPayloads /\ Generators[k].state = "Done" THEN FALSE
    ELSE IF Generators[k].positionPath + Generators[k].positionRaw
              > Len(Paths) + Len(Raws) THEN FALSE
    ELSE TRUE

\* Next without its test of the phase
NextIgnoresPhase(k) ==
    IF ~Registered(k) THEN FALSE
    ELSE IF Generators[k].positionPath + Generators[k].positionRaw
              >= Len(Paths) + Len(Raws) THEN FALSE
    ELSE TRUE

Next(k) ==
    IF ~Registered(k) THEN FALSE
    ELSE IF hasPayloads /\ Generators[k].state = "Done" THEN FALSE
    ELSE IF Generators[k].positionPath + Generators[k].positionRaw
              >= Len(Paths) + Len(Raws) THEN FALSE
    ELSE TRUE

Position(k) ==
    IF ~Registered(k) THEN 0
    ELSE Generators[k].positionPath + Generators[k].positionRaw

\* An index past the end of the slice panics.
Current(k) ==
    IF ~Registered(k) THEN ""
    ELSE IF Generators[k].positionPath < Len(Paths) /\ Len(Paths) # 0
         THEN Paths[Generators[k].positionPath + 1]
    ELSE IF Generators[k].positionRaw < Len(Raws)
         THEN Raws[Generators[k].positionRaw + 1]
    ELSE "panic: index out of range"

\* -------------------------------------------------------------- channels
\* Goroutine p is inside ReadOne(k) and took channel s from g.gchan.
Took(pcs, p, k, s) ==
    pcs[p].op = "ReadOne" /\ pcs[p].key = k /\ pcs[p].ch = s

\* Something still refers to channel s of key k.
Held(G, pcs, k, s) ==
    \/ G[k].present /\ G[k].gchan = s
    \/ \E p \in Procs : Took(pcs, p, k, s)

\* A channel can still deliver to a receiver that has it or can get it.
Reachable(G, pcs, k, s) ==
    \/ G[k].present /\ G[k].gchan = s
    \/ \E p \in Procs : Took(pcs, p, k, s) /\ pcs[p].stage = "select"

\* The producers behind channels nobody can receive from are forgotten.
Collect(C, G, pcs) ==
    [k \in Keys |-> [s \in StreamIds |->
        IF Reachable(G, pcs, k, s) THEN C[k][s] ELSE NoChan]]

FreeIds(k) == {s \in StreamIds : ~Held(Generators, pc, k, s)}

\* The identity of the channel a new run of the generator function returns.
NewChanId(k) == CHOOSE s \in FreeIds(k) : \A t \in FreeIds(k) : s <= t

\* ---------------------------------------------- Add, Has, Delete, Reset
\* Add without its check for an existing key
AddOverwrites(G, k) == [G EXCEPT ![k] = NewGenerator]

\* Body of Add: insert &Generator{state: Init} unless the key is there.
AddBody(G, k) ==
    IF ~G[k].present THEN [G EXCEPT ![k] = NewGenerator] ELSE G

\* Reset from its second lookup on: zero both positions of a known key.
ResetBody(G, k) ==
    IF ~G[k].present THEN G
    ELSE [G EXCEPT ![k].positionPath = 0, ![k].positionRaw = 0]

\* Reset(key) up to its call of Has: takes the exclusive lock and keeps it.
Reset(p, k) ==
    /\ Calls(p, k)
    /\ CanLock(p)
    /\ writer' = p
    /\ pc' = [pc EXCEPT ![p] = At("Reset", k, "Has", NilChan, 0)]
    /\ UNCHANGED <<config, Generators, readers, chans>>

\* Has(key), called by a goroutine or from inside Reset.  Inside Reset a
\* true result leads to the rest of Reset and its deferred Unlock, a false
\* one to the call of Add.
CallHas(p, k) ==
    /\ Calls(p, k) \/ pc[p] = At("Reset", k, "Has", NilChan, 0)
    /\ CanRLock(p)
    /\ IF pc[p] = Idle
       THEN UNCHANGED <<Generators, writer, pc>>
       ELSE IF Has(k)
            THEN /\ Generators' = ResetBody(Generators, k)
                 /\ writer' = NoProc
                 /\ pc' = [pc EXCEPT ![p] = Idle]
            ELSE /\ pc' = [pc EXCEPT ![p] = At("Reset", k, "Add", NilChan, 0)]
                 /\ UNCHANGED <<Generators, writer>>
    /\ UNCHANGED <<config, readers, chans>>

\* Add(key), called by a goroutine or from inside Reset, where the rest of
\* Reset and its deferred Unlock follow.
Add(p, k) ==
    /\ Calls(p, k) \/ pc[p] = At("Reset", k, "Add", NilChan, 0)
    /\ CanLock(p)
    /\ IF pc[p] = Idle
       THEN /\ Generators' = AddBody(Generators, k)
            /\ UNCHANGED <<writer, pc>>
       ELSE /\ Generators' = ResetBody(AddBody(Generators, k), k)
            /\ writer' = NoProc
            /\ pc' = [pc EXCEPT ![p] = Idle]
    /\ UNCHANGED <<config, readers, chans>>

DeleteBody(G, k) == [G EXCEPT ![k] = NoGen]

Delete(p, k) ==
    /\ Calls(p, k)
    /\ CanLock(p)
    /\ Generators' = DeleteBody(Generators, k)
    /\ chans' = Collect(chans, Generators', pc)
    /\ UNCHANGED <<config, writer, readers, pc>>

\* ------------------------------------------------------------- Increment
\* The raw advance putting the key back to Init for the next raw entry
IncrementReinits(g) ==
    IF Len(Paths) > 0 /\ g.positionPath < Len(Paths)
    THEN [g EXCEPT !.positionPath = g.positionPath + 1]
    ELSE IF Len(Raws) > 0 /\ g.positionRaw < Len(Raws)
         THEN IF g.gchan = NilChan
              THEN [g EXCEPT !.state = "Init",
                             !.positionRaw = g.positionRaw + 1]
              ELSE g
         ELSE g

\* The raw advance made whether or not a channel is live
IncrementIgnoresStream(g) ==
    IF Len(Paths) > 0 /\ g.positionPath < Len(Paths)
    THEN [g EXCEPT !.positionPath = g.positionPath + 1]
    ELSE IF Len(Raws) > 0 /\ g.positionRaw < Len(Raws)
         THEN [g EXCEPT !.state = "Done", !.positionRaw = g.positionRaw + 1]
         ELSE g

\* The raw advance tried before the path advance
IncrementRawFirst(g) ==
    IF Len(Raws) > 0 /\ g.positionRaw < Len(Raws) /\ g.gchan = NilChan
    THEN [g EXCEPT !.state = "Done", !.positionRaw = g.positionRaw + 1]
    ELSE IF Len(Paths) > 0 /\ g.positionPath < Len(Paths)
         THEN [g EXCEPT !.positionPath = g.positionPath + 1]
         ELSE g

\* The raw advance without its g.state = Done
IncrementKeepsPhase(g) ==
    IF Len(Paths) > 0 /\ g.positionPath < Len(Paths)
    THEN [g EXCEPT !.positionPath = g.positionPath + 1]
    ELSE IF Len(Raws) > 0 /\ g.positionRaw < Len(Raws)
         THEN IF g.gchan = NilChan
              THEN [g EXCEPT !.positionRaw = g.positionRaw + 1]
              ELSE g
         ELSE g

\* The path advance with <= for <
IncrementPastEnd(g) ==
    IF Len(Paths) > 0 /\ g.positionPath <= Len(Paths)
    THEN [g EXCEPT !.positionPath = g.positionPath + 1]
    ELSE IF Len(Raws) > 0 /\ g.positionRaw < Len(Raws)
         THEN IF g.gchan = NilChan
              THEN [g EXCEPT !.state = "Done",
                             !.positionRaw = g.positionRaw + 1]
              ELSE g
         ELSE g

IncrementBody(g) ==
    IF Len(Paths) > 0 /\ g.positionPath < Len(Paths)
    THEN [g EXCEPT !.positionPath = g.positionPath + 1]
    ELSE IF Len(Raws) > 0 /\ g.positionRaw < Len(Raws)
         THEN IF g.gchan = NilChan
              THEN [g EXCEPT !.state = "Done",
                             !.positionRaw = g.positionRaw + 1]
              ELSE g
         ELSE g

\* An unknown key is taken for a zero Generator.
IncrementUnchecked(G, k) ==
    [G EXCEPT ![k] = IncrementBody(IF G[k].present THEN G[k] ELSE NewGenerator)]

\* Increment after the lock: an unknown key returns.
IncrementKey(G, k) ==
    IF ~G[k].present THEN G ELSE [G EXCEPT ![k] = IncrementBody(G[k])]

Increment(p, k) ==
    /\ Calls(p, k)
    /\ CanLock(p)
    /\ Generators' = IncrementKey(Generators, k)
    /\ UNCHANGED <<config, writer, readers, chans, pc>>

\* ------------------------------------------- the other read-only methods
CallValue(p, k) == Calls(p, k) /\ CanRLock(p) /\ UNCHANGED vars
CallNext(p, k) == Calls(p, k) /\ CanRLock(p) /\ UNCHANGED vars
CallPosition(p, k) == Calls(p, k) /\ CanRLock(p) /\ UNCHANGED vars
CallCurrent(p, k) == Calls(p, k) /\ CanRLock(p) /\ UNCHANGED vars
\* Total takes no lock.
CallTotal(p) == keysOf[p] # {} /\ pc[p] = Idle /\ UNCHANGED vars

\* ------------------------------------------------------------ InitOrSkip
\* InitOrSkip without its test for a live channel
StartsAlways(g) == TRUE

\* if g.gchan == nil
StartsStream(g) == g.gchan = NilChan

\* The section of InitOrSkip under g.Lock(); s is the channel that
\* gfsm.generator(gfsm.basePayloads) returns.
InitOrSkipBody(g, s) ==
    IF StartsStream(g)
    THEN [g EXCEPT !.gchan = s, !.state = "Running"]
    ELSE g

InitOrSkip(p, k) ==
    /\ Calls(p, k)
    /\ CanRLock(p)
    /\ IF ~Registered(k) \/ ~(payloads > 0)
       THEN UNCHANGED <<Generators, chans>>
       ELSE /\ Generators' = [Generators EXCEPT ![k] =
                                 InitOrSkipBody(Generators[k], NewChanId(k))]
            /\ chans' = Collect(chans, Generators', pc)
    /\ UNCHANGED <<config, writer, readers, pc>>

\* --------------------------------------------------------------- ReadOne
\* ReadOne(key) up to the select: an unknown key returns; otherwise the
\* select takes its channel from g.gchan once and the timer starts.
ReadOne(p, k) ==
    /\ Calls(p, k)
    /\ CanRLock(p)
    /\ IF ~Registered(k)
       THEN UNCHANGED <<readers, pc>>
       ELSE /\ readers' = readers \cup {p}
            /\ pc' = [pc EXCEPT ![p] =
                        At("ReadOne", k, "select", Generators[k].gchan, 0)]
    /\ UNCHANGED <<config, Generators, writer, chans>>

\* The producer behind a channel that has delivered n bindings has the next
\* one ready, has closed the channel, or delivers nothing more.
Ready(n) == n < producer.yields
Closed(n) == n = producer.yields /\ producer.closes

Selecting(p) == pc[p].op = "ReadOne" /\ pc[p].stage = "select"

\* case curGenValue, ok := <-g.gchan with ok true
ReadOneReceive(p) ==
    LET k == pc[p].key
        s == pc[p].ch
    IN  /\ Selecting(p)
        /\ s # NilChan
        /\ Ready(chans[k][s])
        /\ pc' = [pc EXCEPT ![p].stage = "store", ![p].val = chans[k][s] + 1]
        /\ chans' = Collect([chans EXCEPT ![k][s] = chans[k][s] + 1],
                            Generators, pc')
        /\ UNCHANGED <<config, Generators, writer, readers>>

\* g.currentGeneratorValue = curGenValue; return
ReadOneStore(p) ==
    LET k == pc[p].key
    IN  /\ pc[p].op = "ReadOne" /\ pc[p].stage = "store"
        /\ Generators' =
              [Generators EXCEPT ![k].currentGeneratorValue = pc[p].val]
        /\ readers' = readers \ {p}
        /\ pc' = [pc EXCEPT ![p] = Idle]
        /\ chans' = Collect(chans, Generators', pc')
        /\ UNCHANGED <<config, writer>>

\* The closed branch without its g.currentGeneratorValue = nil
ClosedKeepsValue(g) == [g EXCEPT !.gchan = NilChan, !.state = "Done"]

\* The writes of the closed branch, under g.Lock()
ClosedBody(g) ==
    [g EXCEPT !.gchan = NilChan, !.state = "Done",
              !.currentGeneratorValue = NilValue]

\* case curGenValue, ok := <-g.gchan with ok false: the channel is closed
ReadOneClosed(p) ==
    LET k == pc[p].key
        s == pc[p].ch
    IN  /\ Selecting(p)
        /\ s # NilChan
        /\ Closed(chans[k][s])
        /\ Generators' = [Generators EXCEPT ![k] = ClosedBody(Generators[k])]
        /\ readers' = readers \ {p}
        /\ pc' = [pc EXCEPT ![p] = Idle]
        /\ chans' = Collect(chans, Generators', pc')
        /\ UNCHANGED <<config, writer>>

\* The timeout branch without its g.state = Done
TimeoutKeepsState(g) == [g EXCEPT !.gchan = NilChan]

\* The timeout branch setting Done only for a key that had been started
TimeoutSparesInit(g) ==
    IF g.state = "Init"
    THEN [g EXCEPT !.gchan = NilChan]
    ELSE [g EXCEPT !.gchan = NilChan, !.state = "Done"]

\* The timeout branch clearing the binding as the closed branch does
TimeoutClearsValue(g) ==
    [g EXCEPT !.gchan = NilChan, !.state = "Done",
              !.currentGeneratorValue = NilValue]

\* The writes of the timeout branch, under g.Lock()
TimeoutBody(g) == [g EXCEPT !.gchan = NilChan, !.state = "Done"]

\* case <-afterCh: the channel is nil or its producer delivers nothing, so
\* the timer fires first
ReadOneTimeout(p) ==
    LET k == pc[p].key
        s == pc[p].ch
    IN  /\ Selecting(p)
        /\ IF s = NilChan THEN TRUE
           ELSE ~Ready(chans[k][s]) /\ ~Closed(chans[k][s])
        /\ Generators' = [Generators EXCEPT ![k] = TimeoutBody(Generators[k])]
        /\ readers' = readers \ {p}
        /\ pc' = [pc EXCEPT ![p] = Idle]
        /\ chans' = Collect(chans, Generators', pc')
        /\ UNCHANGED <<config, writer>>

\* ------------------------------------------------------------------ Spec
Step ==
    \/ \E p \in Procs, k \in Keys :
          \/ Add(p, k)
          \/ CallHas(p, k)
          \/ Delete(p, k)
          \/ Reset(p, k)
          \/ Increment(p, k)
          \/ InitOrSkip(p, k)
          \/ ReadOne(p, k)
          \/ CallValue(p, k)
          \/ CallNext(p, k)
          \/ CallPosition(p, k)
          \/ CallCurrent(p, k)
    \/ \E p \in Procs :
          \/ CallTotal(p)
          \/ ReadOneReceive(p)
          \/ ReadOneStore(p)
          \/ ReadOneClosed(p)
          \/ ReadOneTimeout(p)

Spec == Init /\ [][Step]_vars

\* time.After(15 * time.Second): the timer of a waiting ReadOne fires, and
\* g.Lock() is only ever held for the length of a locked section.
LiveSpec == Spec /\ \A p \in Procs : WF_vars(ReadOneTimeout(p))

\* ---------------------------------------------------------------- claims
Gen(k) == Generators[k]

\* Goroutine p is inside a method called with key k.
Inside(p, k) == pc[p] # Idle /\ pc[p].key = k

\* The next step of a goroutine that is inside a method.
Continue(p) ==
    \/ \E k \in Keys : pc[p] # Idle /\ (CallHas(p, k) \/ Add(p, k))
    \/ ReadOneReceive(p)
    \/ ReadOneStore(p)
    \/ ReadOneClosed(p)
    \/ ReadOneTimeout(p)

\* C1: every operation returns: a goroutine inside a method can take its
\* next step (the timer of a waiting ReadOne fires), or it waits for the
\* coordinator lock while another goroutine holds it exclusively.
C1_OperationsReturn ==
    \A p \in Procs :
        pc[p] # Idle => \/ ENABLED Continue(p)
                        \/ writer \notin {NoProc, p}

\* C2: for a key that is not registered the queries give their absent
\* results, and a step of Delete, Reset, InitOrSkip, ReadOne or Increment
\* on it leaves the key map and every key's state unchanged.
AbsentResults(k) ==
    /\ Has(k) = FALSE
    /\ Value(k) = NilValue
    /\ Next(k) = FALSE
    /\ Position(k) = 0
    /\ Current(k) = ""

MutatorStep(p, k) ==
    \/ Delete(p, k)
    \/ Reset(p, k)
    \/ InitOrSkip(p, k)
    \/ ReadOne(p, k)
    \/ Increment(p, k)
    \/ pc[p].op = "Reset" /\ (CallHas(p, k) \/ Add(p, k))

C2_AbsentKey ==
    /\ [](\A k \in Keys : ~Registered(k) => AbsentResults(k))
    /\ [][\A p \in Procs, k \in Keys :
            ~Registered(k) /\ MutatorStep(p, k)
                => Generators' = Generators /\ chans' = chans]_vars

\* A Reset that has taken the lock for an unregistered key, beside a
\* registered key that has advanced.
C2_Witness ==
    \E p \in Procs, k \in Keys :
        /\ pc[p].op = "Reset" /\ ~Registered(pc[p].key)
        /\ Registered(k) /\ Position(k) > 0

\* C3: no registered key has phase Running while its channel is nil.
C3_RunningHasStream ==
    \A k \in Keys :
        Registered(k) => ~(Gen(k).state = "Running" /\ Gen(k).gchan = NilChan)

\* Both ways of leaving Running have happened to a key that was started
\* again and has a ReadOne waiting.
C3_Witness ==
    \E p \in Procs, k \in Keys :
        /\ Registered(k) /\ Gen(k).state = "Running"
        /\ Gen(k).positionRaw > 0
        /\ Selecting(p) /\ pc[p].key = k /\ pc[p].ch # Gen(k).gchan

\* No ReadOne is in flight on key k.
NoPull(k) == \A p \in Procs : ~(pc[p].op = "ReadOne" /\ pc[p].key = k)

\* Key k is passed by goroutine p alone, so the calls on it are sequential.
SoleUser(p, k) == k \in keysOf[p] /\ \A q \in Procs \ {p} : k \notin keysOf[q]

\* Bindings the channel in g.gchan of key k has delivered.
Delivered(k) == chans[k][Gen(k).gchan]

\* C4: the bindings stored by ReadOne follow the channel's production
\* order, whoever calls: once no ReadOne is in flight on a key, the binding
\* stored is the last one its channel has delivered.
C4_StoredInProductionOrder ==
    \A k \in Keys :
        Registered(k) /\ Gen(k).gchan # NilChan /\ NoPull(k) /\ Delivered(k) > 0
            => Value(k) = Delivered(k)

\* C5: with payloads, InitOrSkip starts a channel exactly when the key has
\* none and otherwise changes nothing; a live channel is never replaced,
\* and only a ReadOne that saw it closed or timed out (or Delete) takes it
\* away; without payloads InitOrSkip changes nothing.
C5_OneStream ==
    /\ [][\A p \in Procs, k \in Keys :
            InitOrSkip(p, k) =>
                IF payloads > 0 /\ Registered(k) /\ Gen(k).gchan = NilChan
                THEN /\ Gen(k).gchan' # NilChan
                     /\ Delivered(k)' = 0
                     /\ \A q \in Procs : ~Took(pc, q, k, Gen(k).gchan')
                ELSE Generators' = Generators /\ chans' = chans]_vars
    /\ [][\A k \in Keys :
            Registered(k) /\ Gen(k).gchan # NilChan
                => \/ Registered(k)' /\ Gen(k).gchan' = Gen(k).gchan
                   \/ /\ Registered(k)' => Gen(k).gchan' = NilChan
                      /\ \E p \in Procs :
                            \/ Delete(p, k)
                            \/ pc[p].key = k /\ ReadOneClosed(p)
                            \/ pc[p].key = k /\ ReadOneTimeout(p)]_vars

\* A key whose channel is live and has delivered, on which InitOrSkip can
\* be called again.
C5_Witness ==
    \E p \in Procs, k \in Keys :
        /\ Registered(k) /\ Gen(k).gchan # NilChan /\ Delivered(k) > 0
        /\ ENABLED InitOrSkip(p, k)

\* C6: on a key one goroutine uses, with a producer that delivers b1..bn
\* and closes: while the channel is live the phase is Running, a ReadOne
\* receives (it neither times out nor sees the channel closed) until n
\* bindings are delivered, after the i-th ReadOne Value is bi, and the
\* ReadOne after the n-th clears channel and binding, sets Done and makes
\* Next false.
C6_SequentialReads ==
    /\ [](\A p \in Procs, k \in Keys :
            SoleUser(p, k) /\ Registered(k) /\ Gen(k).gchan # NilChan
                => /\ Gen(k).state = "Running"
                   /\ Took(pc, p, k, pc[p].ch) => pc[p].ch = Gen(k).gchan
                   /\ NoPull(k) /\ Delivered(k) > 0 => Value(k) = Delivered(k)
                   /\ Selecting(p) /\ pc[p].key = k
                      /\ Delivered(k) < producer.yields
                        => /\ ENABLED ReadOneReceive(p)
                           /\ ~ENABLED ReadOneTimeout(p)
                           /\ ~ENABLED ReadOneClosed(p))
    /\ [][\A p \in Procs, k \in Keys :
            SoleUser(p, k) /\ pc[p].key = k /\ ReadOneClosed(p)
                => /\ Delivered(k) = producer.yields
                   /\ Gen(k).gchan' = NilChan
                   /\ Value(k)' = NilValue
                   /\ Gen(k).state' = "Done"
                   /\ Next(k)' = FALSE]_vars

\* After the second of two sequential reads: Value is b2, phase Running.
C6_Witness ==
    \E p \in Procs, k \in Keys :
        /\ SoleUser(p, k) /\ Registered(k) /\ NoPull(k)
        /\ producer.closes /\ producer.yields >= 2
        /\ Gen(k).gchan # NilChan /\ Delivered(k) = producer.yields
        /\ Value(k) = producer.yields /\ Gen(k).state = "Running"

\* The channel ReadOne waits on is nil, or its producer delivers nothing
\* more and does not close it.
Stalled(p) ==
    /\ Selecting(p)
    /\ IF pc[p].ch = NilChan THEN TRUE
       ELSE /\ ~Ready(chans[pc[p].key][pc[p].ch])
            /\ ~Closed(chans[pc[p].key][pc[p].ch])

\* C7: a ReadOne whose producer neither delivers nor closes returns, it
\* can only do so by timing out, and the timeout clears the channel, sets
\* Done and leaves the stored binding and the positions as they were.
C7_TimeoutKeepsBinding ==
    /\ \A p \in Procs : Stalled(p) ~> pc[p] = Idle
    /\ [](\A p \in Procs :
            Stalled(p) => /\ ~ENABLED ReadOneReceive(p)
                          /\ ~ENABLED ReadOneClosed(p))
    /\ [][\A p \in Procs, k \in Keys :
            pc[p].key = k /\ ReadOneTimeout(p)
                => /\ Gen(k)' = [Gen(k) EXCEPT !.gchan = NilChan,
                                               !.state = "Done"]
                   /\ Value(k)' = Value(k)
                   /\ pc'[p] = Idle]_vars

\* A key whose producer delivered and then stalled, after the timeout: no
\* channel, Done, the last binding still stored.
C7_Witness ==
    \E k \in Keys :
        /\ Registered(k) /\ ~producer.closes
        /\ Gen(k).gchan = NilChan /\ Gen(k).state = "Done"
        /\ Value(k) # NilValue

\* With no raw entries and a producer that never closes its channel, the
\* phase is Done only after a ReadOne on the key has timed out.
TimedOut(k) ==
    /\ Len(Raws) = 0 /\ payloads > 0 /\ ~producer.closes
    /\ Registered(k) /\ Gen(k).state = "Done"

\* C8 as claimed: once a ReadOne has timed out, the key stays Done, without
\* a channel and with Next false for as long as it is registered.
C8_TimeoutIsFinal ==
    [][\A k \in Keys :
          TimedOut(k) /\ Registered(k)'
              => /\ Gen(k).state' = "Done"
                 /\ Gen(k).gchan' = NilChan
                 /\ Next(k)' = FALSE]_vars

\* C8 amended: a key that is Done without a channel, as a timeout leaves
\* it, stays so and keeps Next false (with payloads) in every step except a
\* call of InitOrSkip, which starts a new channel and sets Running.
C8_DoneUntilInitOrSkip ==
    [][\A k \in Keys :
          (/\ Registered(k) /\ Gen(k).state = "Done" /\ Gen(k).gchan = NilChan
           /\ payloads > 0 /\ Registered(k)')
              => \/ /\ Gen(k).state' = "Done"
                    /\ Gen(k).gchan' = NilChan
                    /\ Next(k)' = FALSE
                 \/ /\ \E p \in Procs : InitOrSkip(p, k)
                    /\ Gen(k).state' = "Running"
                    /\ Gen(k).gchan' # NilChan]_vars

\* A key started again after a timeout: the binding of the abandoned
\* channel is still stored, the new channel has delivered nothing.
C8_Witness ==
    \E k \in Keys :
        /\ Len(Raws) = 0 /\ payloads > 0 /\ ~producer.closes
        /\ Registered(k) /\ Gen(k).state = "Running"
        /\ Value(k) # NilValue /\ Delivered(k) = 0

\* C9: without payloads and without raw entries, Next is true exactly
\* while Position < Total, Increment raises Position by one while
\* Position < Total and changes nothing once Position = Total.
C9_StaticPaths ==
    /\ [](\A k \in Keys :
            payloads = 0 /\ Len(Raws) = 0 /\ Registered(k)
                => /\ Position(k) <= Total
                   /\ Next(k) <=> Position(k) < Total)
    /\ [][\A p \in Procs, k \in Keys :
            payloads = 0 /\ Len(Raws) = 0 /\ Registered(k) /\ Increment(p, k)
                => IF Position(k) < Total
                   THEN Position(k)' = Position(k) + 1
                   ELSE Generators' = Generators]_vars

\* Two paths, both passed.
C9_Witness ==
    \E k \in Keys :
        /\ payloads = 0 /\ Len(Raws) = 0 /\ Len(Paths) >= 2
        /\ Registered(k) /\ Position(k) = Total

\* C10: Add on a registered key changes nothing; Add on an unregistered key
\* inserts a Generator in phase Init with both positions 0, no channel and
\* no binding, and changes no other key.
C10_AddIdempotent ==
    [][\A p \in Procs, k \in Keys :
          Calls(p, k) /\ Add(p, k)
              => IF Registered(k)
                 THEN Generators' = Generators
                 ELSE Generators' = [Generators EXCEPT ![k] =
                          [present |-> TRUE, positionPath |-> 0,
                           positionRaw |-> 0, gchan |-> NilChan,
                           currentGeneratorValue |-> NilValue,
                           state |-> "Init"]]]_vars

\* A registered key that has advanced and left Init, on which Add can be
\* called again.
C10_Witness ==
    \E p \in Procs, k \in Keys :
        /\ Registered(k) /\ Position(k) > 0 /\ Gen(k).state = "Running"
        /\ Value(k) # NilValue
        /\ ENABLED Add(p, k)

\* Goroutine p is inside Reset(k), holding the exclusive lock.
InReset(p, k) == pc[p].op = "Reset" /\ pc[p].key = k

\* C11: Reset(key) completes: a goroutine inside Reset can take the step
\* that leads to its return, after which both positions are 0 (a key that
\* was absent is registered in phase Init) and nothing else has changed.
C11_ResetCompletes ==
    \A p \in Procs, k \in Keys :
        InReset(p, k) => ENABLED (CallHas(p, k) \/ Add(p, k))

\* C12: Increment on a registered key changes at most one counter, by +1:
\* the path position while it is below the number of paths; otherwise the
\* raw position, only while it is below the number of raws and the key has
\* no channel, with phase Done set in that step; otherwise, and so while a
\* channel is live and the paths are exhausted, nothing changes.
C12_IncrementOneCounter ==
    [][\A p \in Procs, k \in Keys :
          Increment(p, k) /\ Registered(k) =>
              LET g == Gen(k)
                  h == Gen(k)'
              IN  IF g.positionPath < Len(Paths)
                  THEN h = [g EXCEPT !.positionPath = g.positionPath + 1]
                  ELSE IF g.positionRaw < Len(Raws) /\ g.gchan = NilChan
                       THEN h = [g EXCEPT !.positionRaw = g.positionRaw + 1,
                                          !.state = "Done"]
                       ELSE Generators' = Generators]_vars

\* The paths are exhausted, a raw entry is left and the channel is live:
\* an Increment that can be called here changes nothing.
C12_Witness ==
    \E p \in Procs, k \in Keys :
        /\ Registered(k) /\ Gen(k).gchan # NilChan
        /\ Len(Paths) > 0 /\ Gen(k).positionPath = Len(Paths)
        /\ Gen(k).positionRaw = 1 /\ Len(Raws) > 1
        /\ ENABLED Increment(p, k)

\* C13: for a registered key Next is false if payloads are configured and
\* the phase is Done, false if the two positions together have reached
\* Total, and true otherwise; Next's test for payloads (basePayloads) and
\* InitOrSkip's (payloads) agree.
C13_NextResult ==
    /\ hasPayloads <=> payloads > 0
    /\ \A k \in Keys :
          Registered(k) =>
              Next(k) = (IF payloads > 0 /\ Gen(k).state = "Done" THEN FALSE
                         ELSE IF Gen(k).positionPath + Gen(k).positionRaw
                                   >= Total THEN FALSE
                         ELSE TRUE)

\* A key with payloads that is Done with entries left: Next is false for
\* the phase alone.
C13_Witness ==
    \E k \in Keys :
        /\ Registered(k) /\ payloads > 0 /\ Gen(k).state = "Done"
        /\ Position(k) > 0 /\ Position(k) < Total
        /\ ~Next(k)

\* Goroutine p is inside ReadOne(k) at g.currentGeneratorValue = curGenValue,
\* a write made with the coordinator's shared lock and no g.Lock().
UnlockedStore(p, k) ==
    pc[p].op = "ReadOne" /\ pc[p].key = k /\ pc[p].stage = "store"

\* C14: accesses to one key's fields are serialized: while a goroutine is
\* at a write of a field of key k, no other goroutine is at a write of that
\* field and none can read it through Value.
C14_KeyFieldsSerialized ==
    \A p \in Procs, q \in Procs, k \in Keys :
        p # q /\ UnlockedStore(p, k)
            => ~UnlockedStore(q, k) /\ ~ENABLED CallValue(q, k)

OutOfRange == "panic: index out of range"

\* C15: whenever Next is true for a key, Current reads an element that
\* exists: the path position is below the number of paths, or equal to it
\* with the raw position below the number of raws; Current indexes out of
\* range only where Next is false.
C15_CurrentInRange ==
    \A k \in Keys :
        /\ Next(k) => /\ \/ Gen(k).positionPath < Len(Paths)
                         \/ /\ Gen(k).positionPath = Len(Paths)
                            /\ Gen(k).positionRaw < Len(Raws)
                      /\ Current(k) # OutOfRange
        /\ Registered(k) /\ Current(k) = OutOfRange => ~Next(k)

\* Paths exhausted, first raw entry passed, Next true: Current reads the
\* second raw entry.
C15_Witness ==
    \E k \in Keys :
        /\ Next(k) /\ Len(Paths) > 0
        /\ Gen(k).positionPath = Len(Paths) /\ Gen(k).positionRaw = 1
        /\ Current(k) = RawLit(2)

\* C16: a ReadOne that clears g.gchan and sets Done, in its closed or its
\* timeout branch, clears the channel it was itself waiting on: a live
\* channel in g.gchan is never cleared by a ReadOne that took an earlier
\* channel or none.
C16_ClearsOwnStream ==
    [][\A p \in Procs, k \in Keys :
          /\ pc[p].key = k
          /\ Registered(k)
          /\ Gen(k).gchan # NilChan
          /\ ReadOneTimeout(p) \/ ReadOneClosed(p)
          => pc[p].ch = Gen(k).gchan]_vars

\* Goroutine p is inside ReadOne, between its RLock() and its return.
Reading(p) == pc[p].op = "ReadOne"

\* C17: a ReadOne in flight holds the shared lock, so no Add, Delete, Reset
\* or Increment on any key can take its lock, and no step taken while a
\* ReadOne is in flight, its return included, changes which keys are
\* registered or any key's positions.
C17_ReadOneExcludesWriters ==
    /\ [](\A p \in Procs :
            Reading(p) =>
                /\ p \in readers /\ writer = NoProc
                /\ \A q \in Procs, k \in Keys :
                      /\ ~ENABLED Add(q, k)
                      /\ ~ENABLED Delete(q, k)
                      /\ ~ENABLED Reset(q, k)
                      /\ ~ENABLED Increment(q, k))
    /\ [][(\E p \in Procs : Reading(p)) =>
            \A k \in Keys :
                /\ Registered(k)' = Registered(k)
                /\ Registered(k) =>
                      /\ Gen(k).positionPath' = Gen(k).positionPath
                      /\ Gen(k).positionRaw' = Gen(k).positionRaw]_vars

\* One goroutine waits in ReadOne on a key whose path position could still
\* advance, while another is about to call a method on that key.
C17_Witness ==
    \E p \in Procs, q \in Procs, k \in Keys :
        /\ p # q /\ Selecting(p) /\ pc[p].key = k
        /\ Calls(q, k)
        /\ Gen(k).positionPath < Len(Paths)

\* C18: for every registered key each position lies between 0 and the
\* length of its list, so Position is at most Total, and the raw position
\* is above 0 only once the paths are exhausted (no reachable state comes
\* out of the body of Reset, so no state is excepted).
C18_PositionsInRange ==
    \A k \in Keys :
        Registered(k) =>
            /\ Gen(k).positionPath \in 0 .. Len(Paths)
            /\ Gen(k).positionRaw \in 0 .. Len(Raws)
            /\ Position(k) <= Total
            /\ Gen(k).positionRaw > 0 => Gen(k).positionPath = Len(Paths)

\* Both lists walked to their ends.
C18_Witness ==
    \E k \in Keys :
        /\ Registered(k) /\ Len(Paths) > 1 /\ Len(Raws) > 1
        /\ Gen(k).positionPath = Len(Paths)
        /\ Gen(k).positionRaw = Len(Raws)
        /\ Position(k) = Total

\* C19: with payloads and at least two raw entries, the Increment that
\* advances the raw position sets Done, so Next is false right after it
\* though Position < Total after the first such advance; for a key that
\* stays registered Next turns from false to true only in a step of
\* InitOrSkip that starts a new channel and sets Running.
C19_DoneNotAbsorbing ==
    /\ [][\A p \in Procs, k \in Keys :
            (/\ Increment(p, k) /\ Registered(k)
             /\ payloads > 0 /\ Len(Raws) >= 2
             /\ Gen(k).positionRaw' = Gen(k).positionRaw + 1)
                => /\ Gen(k).state' = "Done"
                   /\ Next(k)' = FALSE
                   /\ Gen(k).positionRaw = 0 => Position(k)' < Total]_vars
    /\ [][\A k \in Keys :
            (/\ payloads > 0 /\ Len(Raws) >= 2
             /\ Registered(k) /\ Registered(k)'
             /\ ~Next(k) /\ Next(k)')
                => /\ \E p \in Procs : InitOrSkip(p, k)
                   /\ Gen(k).state = "Done" /\ Gen(k).gchan = NilChan
                   /\ Gen(k).state' = "Running"
                   /\ Gen(k).gchan' # NilChan]_vars

\* After the first raw advance and a new InitOrSkip: Running again, Next
\* true, one raw entry passed.
C19_Witness ==
    \E k \in Keys :
        /\ payloads > 0 /\ Len(Raws) >= 2 /\ Registered(k)
        /\ Gen(k).positionRaw = 1 /\ Gen(k).state = "Running"
        /\ Next(k)

\* Goroutine p waits in ReadOne(k) on a nil channel.
WaitsOnNil(p, k) == Selecting(p) /\ pc[p].key = k /\ pc[p].ch = NilChan

\* C20: ReadOne on a registered key without a channel waits on nil: it can
\* receive nothing and see nothing closed, only its timer can fire, and
\* the timeout sets Done whatever the phase was and leaves the stored
\* binding and both positions as they were.
C20_ReadOneWithoutStream ==
    /\ [](\A p \in Procs, k \in Keys :
            WaitsOnNil(p, k) => /\ ENABLED ReadOneTimeout(p)
                                /\ ~ENABLED ReadOneReceive(p)
                                /\ ~ENABLED ReadOneClosed(p))
    /\ [][\A p \in Procs, k \in Keys :
            ReadOne(p, k) /\ Registered(k) /\ Gen(k).gchan = NilChan
                => WaitsOnNil(p, k)']_vars
    /\ [][\A p \in Procs, k \in Keys :
            WaitsOnNil(p, k) /\ ReadOneTimeout(p)
                => /\ Gen(k).state' = "Done"
                   /\ Value(k)' = Value(k)
                   /\ Gen(k).positionPath' = Gen(k).positionPath
                   /\ Gen(k).positionRaw' = Gen(k).positionRaw
                   /\ pc'[p] = Idle]_vars

\* Without payloads and raw entries only a timed-out ReadOne sets Done:
\* a key that went from Init to Done with its position kept.
C20_Witness ==
    \E k \in Keys :
        /\ payloads = 0 /\ Len(Raws) = 0 /\ Registered(k)
        /\ Gen(k).state = "Done" /\ Position(k) = 1

====
